---- MODULE Spec2Model ----
(***************************************************************************)
(* Model of the genius validation pipeline: main() of src/main.py (fast    *)
(* sweep, slow sweep, exception handlers), the store queries get_objects / *)
(* update_objects, and the validators of src/validate_URL.py,             *)
(* src/validate_VAT_ID.py and src/validate_IBAN.py.                        *)
(*                                                                         *)
(* Strings are sequences of one-character strings, so that strip, upper,   *)
(* slicing and the regular expressions are computed as the code computes   *)
(* them.  LAST_VISITED is a day number; every datetime.now() of one run    *)
(* reads the same instant Now (the run does not span a change of date).    *)
(***************************************************************************)
EXTENDS Integers, Sequences, FiniteSets, TLC

\* ------------------------------------------------------------------------
\* Characters and strings
\* ------------------------------------------------------------------------

DigitChars == <<"0", "1", "2", "3", "4", "5", "6", "7", "8", "9">>

LowerChars == <<"a", "b", "c", "d", "e", "f", "g", "h", "i", "j", "k", "l", "m",
                "n", "o", "p", "q", "r", "s", "t", "u", "v", "w", "x", "y", "z">>

UpperChars == <<"A", "B", "C", "D", "E", "F", "G", "H", "I", "J", "K", "L", "M",
                "N", "O", "P", "Q", "R", "S", "T", "U", "V", "W", "X", "Y", "Z">>

\* Characters in ASCII order, as far as the values of the model use them;
\* VALUE ASC of get_objects compares strings by this order.
AsciiOrder == <<"\n", " ", "-", ".", "/">> \o DigitChars \o <<":", "=", "?">>
              \o UpperChars \o <<"[", "]">> \o LowerChars

Range(f) == {f[x] : x \in DOMAIN f}

Digit == Range(DigitChars)

UpperLetter == Range(UpperChars)

LowerLetter == Range(LowerChars)

Whitespace == {" ", "\n"}

AllChars == Range(AsciiOrder)

\* the place of a character in the order
OrdTable == [c \in AllChars |-> CHOOSE k \in DOMAIN AsciiOrder : AsciiOrder[k] = c]

Ord(c) == OrdTable[c]

\* int(c) of a decimal digit character
DigitTable == [c \in Digit |-> (CHOOSE k \in DOMAIN DigitChars : DigitChars[k] = c) - 1]

DigitVal(c) == DigitTable[c]

\* str.upper() on one character
UpperTable ==
    [c \in AllChars |->
        IF c \in LowerLetter
        THEN UpperChars[CHOOSE k \in DOMAIN LowerChars : LowerChars[k] = c]
        ELSE c]

UpperChar(c) == UpperTable[c]

\* the characters that are c but for their case
CaseTable == [c \in AllChars |-> {x \in AllChars : UpperTable[x] = UpperTable[c]}]

\* str.upper()
Upper(s) == [k \in DOMAIN s |-> UpperChar(s[k])]

\* str.strip(): leading and trailing whitespace removed
Strip(s) ==
    LET keep == {k \in DOMAIN s : s[k] \notin Whitespace}
    IN  IF keep = {} THEN <<>>
        ELSE LET lo == CHOOSE k \in keep : \A j \in keep : k <= j
                 hi == CHOOSE k \in keep : \A j \in keep : k >= j
             IN  SubSeq(s, lo, hi)

\* s[a:b] of Python (0-based, end exclusive, clipped to the string)
Slice(s, a, b) ==
    LET hi == IF b > Len(s) THEN Len(s) ELSE b
    IN  IF a >= hi THEN <<>> ELSE SubSeq(s, a + 1, hi)

\* s[a:]
SliceFrom(s, a) == Slice(s, a, Len(s))

\* str.startswith / str.endswith
StartsWith(s, p) == Len(s) >= Len(p) /\ SubSeq(s, 1, Len(p)) = p

EndsWith(s, p) == Len(s) >= Len(p) /\ SubSeq(s, Len(s) - Len(p) + 1, Len(s)) = p

\* str.isdigit(): non-empty and all decimal digits
IsDigitStr(s) == Len(s) > 0 /\ \A k \in DOMAIN s : s[k] \in Digit

\* s < t in the lexicographic order of the characters
StrLess(s, t) ==
    \E k \in 1..(Len(t)) :
        /\ \A j \in 1..(k - 1) : j <= Len(s) /\ s[j] = t[j]
        /\ \/ k = Len(s) + 1
           \/ k <= Len(s) /\ Ord(s[k]) < Ord(t[k])

\* ------------------------------------------------------------------------
\* Regular expressions, by the set of positions a match can have reached.
\* A position is the index of the next character to read; re.match starts at 1.
\* ------------------------------------------------------------------------

\* one piece  [cls]{lo,hi}  applied at every position of P
RxClass(s, P, cls, lo, hi) ==
    {q \in 1..(Len(s) + 1) :
        \E p \in P : /\ q - p \in lo..hi
                     /\ \A j \in p..(q - 1) : s[j] \in cls}

\* a literal string; ci = re.IGNORECASE
RECURSIVE RxLit(_, _, _, _)
RxLit(s, P, lit, ci) ==
    IF lit = <<>> THEN P
    ELSE LET c   == Head(lit)
             cls == IF ci THEN CaseTable[c] ELSE {c}
         IN  RxLit(s, RxClass(s, P, cls, 1, 1), Tail(lit), ci)

\* the end of the pattern, "$": the end of the string, or just before a
\* newline that ends the string
RxEnd(s, P) ==
    \E p \in P : \/ p = Len(s) + 1
                 \/ p = Len(s) /\ s[p] = "\n"

\* a sequence of pieces [cls, lo, hi], one after the other
RECURSIVE RxSeq(_, _, _)
RxSeq(s, P, pieces) ==
    IF pieces = <<>> THEN P
    ELSE LET h == Head(pieces)
         IN  RxSeq(s, RxClass(s, P, h.cls, h.lo, h.hi), Tail(pieces))

\* the pieces of a literal
RxChars(lit) == [k \in DOMAIN lit |-> [cls |-> {lit[k]}, lo |-> 1, hi |-> 1]]

\* \d{lo,hi}
RxDigits(lo, hi) == <<[cls |-> Digit, lo |-> lo, hi |-> hi]>>

\* one character of a class
RxOne(cls) == <<[cls |-> cls, lo |-> 1, hi |-> 1]>>

\* ------------------------------------------------------------------------
\* validate_VAT_ID: syntax and checksums
\* ------------------------------------------------------------------------

AlphaNum == UpperLetter \cup Digit

\* [A-W] and [A-I]
LettersAtoW == {UpperChars[k] : k \in 1..23}

LettersAtoI == {UpperChars[k] : k \in 1..9}

\* the alternatives of the per-country expression, in the order of the source
VatPatterns ==
    << RxChars(<<"A", "T", "U">>) \o RxDigits(8, 8),
       RxChars(<<"B", "E", "0">>) \o RxDigits(9, 9),
       RxChars(<<"B", "G">>) \o RxDigits(9, 10),
       RxChars(<<"C", "Y">>) \o RxDigits(8, 8) \o RxOne(UpperLetter),
       RxChars(<<"C", "Z">>) \o RxDigits(8, 10),
       RxChars(<<"D", "E">>) \o RxDigits(9, 9),
       RxChars(<<"D", "K">>) \o RxDigits(8, 8),
       RxChars(<<"E", "E">>) \o RxDigits(9, 9),
       RxChars(<<"E", "L">>) \o RxDigits(9, 9),
       RxChars(<<"E", "S">>) \o RxOne(AlphaNum) \o RxDigits(7, 7) \o RxOne(AlphaNum),
       RxChars(<<"F", "I">>) \o RxDigits(8, 8),
       RxChars(<<"F", "R">>) \o RxOne(AlphaNum) \o RxOne(AlphaNum) \o RxDigits(9, 9),
       RxChars(<<"H", "R">>) \o RxDigits(11, 11),
       RxChars(<<"H", "U">>) \o RxDigits(8, 8),
       RxChars(<<"I", "E">>) \o RxDigits(7, 7) \o RxOne(LettersAtoW),
       RxChars(<<"I", "E">>) \o RxDigits(7, 7) \o RxOne(LettersAtoW) \o RxOne(LettersAtoI),
       RxChars(<<"I", "T">>) \o RxDigits(11, 11),
       RxChars(<<"L", "T">>) \o RxDigits(9, 9),
       RxChars(<<"L", "T">>) \o RxDigits(12, 12),
       RxChars(<<"L", "U">>) \o RxDigits(8, 8),
       RxChars(<<"L", "V">>) \o RxDigits(11, 11),
       RxChars(<<"M", "T">>) \o RxDigits(8, 8),
       RxChars(<<"N", "L">>) \o RxDigits(9, 9) \o RxChars(<<"B">>) \o RxDigits(2, 2),
       RxChars(<<"P", "L">>) \o RxDigits(10, 10),
       RxChars(<<"P", "T">>) \o RxDigits(9, 9),
       RxChars(<<"R", "O">>) \o RxDigits(2, 10),
       RxChars(<<"S", "E">>) \o RxDigits(12, 12),
       RxChars(<<"S", "I">>) \o RxDigits(8, 8),
       RxChars(<<"S", "K">>) \o RxDigits(10, 10) >>

\* is_valid_vat_syntax: the value is stripped and upper-cased, then matched
is_valid_vat_syntax(vat_id) ==
    LET v == Upper(Strip(vat_id))
    IN  \E k \in DOMAIN VatPatterns : RxEnd(v, RxSeq(v, {1}, VatPatterns[k]))

\* int(s) of a string of decimal digits
RECURSIVE StrToInt(_)
StrToInt(s) ==
    IF s = <<>> THEN 0
    ELSE 10 * StrToInt(SubSeq(s, 1, Len(s) - 1)) + DigitVal(s[Len(s)])

\* the running product of the German check digit after the first n digits
RECURSIVE GermanProduct(_, _)
GermanProduct(number, n) ==
    IF n = 0 THEN 10
    ELSE LET sum0 == (DigitVal(number[n]) + GermanProduct(number, n - 1)) % 10
             sum_ == IF sum0 = 0 THEN 10 ELSE sum0
         IN  (2 * sum_) % 11

_is_valid_german_vat_checksum(number) ==
    IF Len(number) # 9 \/ ~IsDigitStr(number) THEN FALSE
    ELSE LET check0 == 11 - GermanProduct(number, 8)
             check  == IF check0 = 10 THEN 0 ELSE check0
         IN  check = DigitVal(number[9])

\* sum over k of f[k], k in 1..n
RECURSIVE SumTo(_, _)
SumTo(f, n) == IF n = 0 THEN 0 ELSE f[n] + SumTo(f, n - 1)

\* n if n < 10, else the sum of its two digits
FoldDigits(n) == IF n < 10 THEN n ELSE (n \div 10) + (n % 10)

_is_valid_austrian_vat_checksum(number) ==
    IF Len(number) # 9 \/ ~StartsWith(number, <<"U">>) THEN FALSE
    ELSE LET weights  == <<1, 2, 1, 2, 1, 2, 1>>
             term     == [k \in 1..7 |-> FoldDigits(DigitVal(number[k + 1]) * weights[k])]
             total    == SumTo(term, 7)
             checkdigit == (10 - ((total + 4) % 10)) % 10
         IN  checkdigit = DigitVal(number[9])

_is_valid_swiss_vat_checksum(number) ==
    IF Len(number) # 9 \/ ~IsDigitStr(number) THEN FALSE
    ELSE LET weights == <<5, 4, 3, 2, 7, 6, 5, 4>>
             term    == [k \in 1..8 |-> DigitVal(number[k]) * weights[k]]
             check   == 11 - (SumTo(term, 8) % 11)
         IN  IF check = 10 THEN FALSE
             ELSE (IF check = 11 THEN 0 ELSE check) = DigitVal(number[9])

_is_valid_belgian_vat_checksum(number) ==
    IF Len(number) # 10 \/ ~StartsWith(number, <<"0">>) \/ ~IsDigitStr(number) THEN FALSE
    ELSE LET base       == StrToInt(Slice(number, 1, 9))
             checksum   == StrToInt(Slice(number, 8, 10))
             calculated == 97 - (base % 97)
         IN  calculated = checksum

_is_valid_italian_vat_checksum(number) ==
    IF Len(number) # 11 \/ ~IsDigitStr(number) THEN FALSE
    ELSE LET term == [k \in 1..10 |->
                         LET n == DigitVal(number[k])
                         IN  IF (k - 1) % 2 = 0 THEN n
                             ELSE IF 2 * n < 10 THEN 2 * n ELSE 2 * n - 9]
             checkdigit == (10 - (SumTo(term, 10) % 10)) % 10
         IN  checkdigit = DigitVal(number[11])

_is_valid_dutch_vat_checksum(number) ==
    IF ~EndsWith(number, <<"B", "0", "1">>) /\ ~EndsWith(number, <<"B", "0", "2">>) THEN TRUE
    ELSE LET digits == Slice(number, 0, 9)
         IN  IF ~IsDigitStr(digits) THEN FALSE
             ELSE LET term == [k \in 1..Len(digits) |-> DigitVal(digits[k]) * (10 - k)]
                  IN  SumTo(term, Len(digits)) % 11 = 0

_is_valid_swedish_vat_checksum(number) ==
    IF Len(number) # 12 \/ ~IsDigitStr(number) THEN FALSE
    ELSE LET term == [k \in 1..10 |->
                         LET n == DigitVal(number[k])
                         IN  FoldDigits(IF (k - 1) % 2 = 0 THEN 2 * n ELSE n)]
             checkdigit == (10 - (SumTo(term, 10) % 10)) % 10
         IN  checkdigit = DigitVal(number[11])

\* is_valid_vat_checksum: the country code is the upper-cased first two
\* characters of the value as passed in, the number is the rest of it
is_valid_vat_checksum(vat_id) ==
    LET country_code == Upper(Slice(vat_id, 0, 2))
        number       == SliceFrom(vat_id, 2)
    IN  CASE country_code = <<"D", "E">> -> _is_valid_german_vat_checksum(number)
          [] country_code = <<"A", "T">> -> _is_valid_austrian_vat_checksum(number)
          [] country_code = <<"C", "H">> -> _is_valid_swiss_vat_checksum(number)
          [] country_code = <<"I", "T">> -> _is_valid_italian_vat_checksum(number)
          [] country_code = <<"N", "L">> -> _is_valid_dutch_vat_checksum(number)
          [] country_code = <<"B", "E">> -> _is_valid_belgian_vat_checksum(number)
          [] country_code = <<"S", "E">> -> _is_valid_swedish_vat_checksum(number)
          [] OTHER -> TRUE


\* ------------------------------------------------------------------------
\* validate_URL: syntax
\* ------------------------------------------------------------------------

\* [A-Z0-9], [A-Z0-9-], [A-Z], [A-F0-9], [A-F0-9:] under re.IGNORECASE, and \S
RxAlnum == UpperLetter \cup LowerLetter \cup Digit

RxAlnumDash == RxAlnum \cup {"-"}

RxLetter == UpperLetter \cup LowerLetter

RxHex == Digit \cup {"A", "B", "C", "D", "E", "F", "a", "b", "c", "d", "e", "f"}

RxNonSpace == AllChars \ Whitespace

\* (?:http|ftp)s?://
RxScheme(s, P, ci) ==
    LET name == RxLit(s, P, <<"h", "t", "t", "p">>, ci) \cup RxLit(s, P, <<"f", "t", "p">>, ci)
        opts == name \cup RxLit(s, name, <<"s">>, ci)
    IN  RxLit(s, opts, <<":", "/", "/">>, ci)

\* [A-Z0-9](?:[A-Z0-9-]{0,61}[A-Z0-9])?\.
RxLabel(s, P) ==
    LET first == RxClass(s, P, RxAlnum, 1, 1)
        more  == RxClass(s, RxClass(s, first, RxAlnumDash, 0, 61), RxAlnum, 1, 1)
    IN  RxLit(s, first \cup more, <<".">>, TRUE)

\* (?:label)+ : every position one or more labels can reach
RECURSIVE RxLabels(_, _, _)
RxLabels(s, P, acc) ==
    LET new == RxLabel(s, P) \ acc
    IN  IF new = {} THEN acc ELSE RxLabels(s, new, acc \cup new)

\* (?:[A-Z]{2,6}\.?|[A-Z0-9-]{2,}\.?)
RxTld(s, P) ==
    LET t == RxClass(s, P, RxLetter, 2, 6) \cup RxClass(s, P, RxAlnumDash, 2, Len(s))
    IN  t \cup RxLit(s, t, <<".">>, TRUE)

\* \d{1,3}\.\d{1,3}\.\d{1,3}\.\d{1,3}
RxIpv4(s, P) ==
    LET oct == <<[cls |-> Digit, lo |-> 1, hi |-> 3]>>
        dot == RxChars(<<".">>)
    IN  RxSeq(s, P, oct \o dot \o oct \o dot \o oct \o dot \o oct)

\* \[?[A-F0-9]*:[A-F0-9:]+\]?
RxIpv6(s, P) ==
    LET open  == P \cup RxLit(s, P, <<"[">>, TRUE)
        head  == RxClass(s, open, RxHex, 0, Len(s))
        colon == RxLit(s, head, <<":">>, TRUE)
        rest  == RxClass(s, colon, RxHex \cup {":"}, 1, Len(s))
    IN  rest \cup RxLit(s, rest, <<"]">>, TRUE)

\* is_valid_url
is_valid_url(url) ==
    LET scheme == RxScheme(url, {1}, TRUE)
        host   == RxTld(url, RxLabels(url, scheme, {}))
                  \cup RxLit(url, scheme, <<"l", "o", "c", "a", "l", "h", "o", "s", "t">>, TRUE)
                  \cup RxIpv4(url, scheme)
                  \cup RxIpv6(url, scheme)
        port   == host \cup RxClass(url, RxLit(url, host, <<":">>, TRUE), Digit, 1, Len(url))
        path   == port \cup RxLit(url, port, <<"/">>, TRUE)
                  \cup RxClass(url, RxClass(url, port, {"/", "?"}, 1, 1), RxNonSpace, 1, Len(url))
    IN  RxEnd(url, path)

\* the url validate_fast checks: the scheme is added if the value has none
\* (the test for a scheme is case-sensitive)
UrlWithScheme(value) ==
    IF RxScheme(value, {1}, FALSE) # {} THEN value
    ELSE <<"h", "t", "t", "p", ":", "/", "/">> \o value

\* the url ping_url requests: https is forced
UrlForPing(url) ==
    LET http  == <<"h", "t", "t", "p", ":", "/", "/">>
        https == <<"h", "t", "t", "p", "s", ":", "/", "/">>
    IN  IF ~StartsWith(url, http) /\ ~StartsWith(url, https) THEN https \o url
        ELSE IF StartsWith(url, http) THEN https \o SliceFrom(url, Len(http))
        ELSE url


\* ------------------------------------------------------------------------
\* Records, the store, the configuration
\* ------------------------------------------------------------------------

\* bounds of the model
MaxRows == 2

MaxPolls == 1

\* the while-loop counter of a sweep stops counting here
MaxRounds == MaxRows + 2

\* day numbers: CURRENT_DATE of the run, and the date NULL is coalesced to
Today == 3

Epoch2000 == 0

\* datetime.now(): an instant of the day Today
Now == Today

\* NULL of a column / None of a field; a LAST_VISITED is <<>> (None) or <<day>>
None == "None"

NoVisit == <<>>

\* the classifications the validator mapping knows, and the values of the model
CLASS_MAPPING == {"URL", "IBAN", "VAT_ID"}

UrlValues == { <<"a", ".", "d", "e">>, <<"b", ".", "d", "e">>, <<"a", " ", "b">> }

VatValues == { <<"D", "E", "1", "3", "6", "6", "9", "5", "9", "7", "6">>,
               <<"D", "E", "1", "3", "6", "6", "9", "5", "9", "7", "5">>,
               <<"d", "e", "1", "3", "6", "6", "9", "5", "9", "7", "6">> }

IbanValues == { <<"G", "B", "8", "2", "W", "E", "S", "T", "1", "2", "3", "4", "5", "6",
                  "9", "8", "7", "6", "5", "4", "3", "2">> }

PhoneValues == { <<"0", "1", "2", "3">> }

\* the rows GENIUS.SHARED_NAIGENT_DATA may hold: <<CLASSIFICATION, VALUE>>
AllKeys == ({"URL"} \X UrlValues) \cup ({"VAT_ID"} \X VatValues)
           \cup ({"IBAN"} \X IbanValues) \cup ({"PHONE"} \X PhoneValues)

\* the values of the configuration: batchsize_fast, batchsize_slow, history
BatchSizes == {1, 2}

Histories == {-1, 0, 1}

\* what the services answer
HttpCodes == {200, 400, 403}

AccountStatuses == {[total_count |-> t, limit |-> 1] : t \in 0..2}

\* obj.<field> = val; written is the set of fields the running call assigned
Assign(o, field, val) == [o EXCEPT ![field] = val, !.written = @ \cup {field}]

\* ------------------------------------------------------------------------
\* validate_URL.validate_fast, validate_VAT_ID.validate_fast
\* ------------------------------------------------------------------------

\* a fast phase that leaves a record alone once it is check
URL_validate_fast_KeepCheck(objs) ==
    [k \in DOMAIN objs |->
        LET o   == Assign(objs[k], "last_visited", <<Now>>)
            url == UrlWithScheme(o.value)
        IN  IF objs[k].status = "check" THEN o
            ELSE IF ~is_valid_url(url)
            THEN Assign(Assign(o, "status", "check"), "status_message", "Invalid URL syntax")
            ELSE Assign(Assign(o, "status", "formal ok"),
                        "status_message", "API check outstanding")]

URL_validate_fast(objs) ==
    [k \in DOMAIN objs |->
        LET o   == Assign(objs[k], "last_visited", <<Now>>)
            url == UrlWithScheme(o.value)
        IN  IF ~is_valid_url(url)
            THEN Assign(Assign(o, "status", "check"), "status_message", "Invalid URL syntax")
            ELSE Assign(Assign(o, "status", "formal ok"),
                        "status_message", "API check outstanding")]

VAT_validate_fast(objs) ==
    [k \in DOMAIN objs |->
        LET o      == Assign(objs[k], "last_visited", <<Now>>)
            vat_id == o.value
        IN  IF ~is_valid_vat_syntax(vat_id)
            THEN Assign(Assign(o, "status", "check"), "status_message", "Invalid VAT ID syntax")
            ELSE IF ~is_valid_vat_checksum(vat_id)
            THEN Assign(Assign(o, "status", "check"),
                        "status_message", "Invalid VAT ID checksum")
            ELSE Assign(Assign(o, "status", "formal ok"),
                        "status_message", "API check outstanding")]

\* ------------------------------------------------------------------------
\* validate_IBAN.validate
\* ------------------------------------------------------------------------

\* ^[A-Z]{2}[0-9]{2}[A-Z0-9]{1,30}$ with re.IGNORECASE
is_valid_iban_syntax(iban) ==
    LET letters == UpperLetter \cup LowerLetter
    IN  RxEnd(iban, RxSeq(iban, {1},
            << [cls |-> letters, lo |-> 2, hi |-> 2],
               [cls |-> Digit, lo |-> 2, hi |-> 2],
               [cls |-> letters \cup Digit, lo |-> 1, hi |-> 30] >>))

\* int(ch, 36) of a letter or digit
Base36(ch) ==
    IF ch \in Digit THEN DigitVal(ch)
    ELSE 9 + (CHOOSE k \in DOMAIN UpperChars : UpperChars[k] = UpperChar(ch))

\* int(numeric_iban) % 97, digit group by digit group: acc is the remainder
\* of the digits read so far
RECURSIVE Mod97(_, _)
Mod97(chars, acc) ==
    IF chars = <<>> THEN acc
    ELSE LET v == Base36(Head(chars))
         IN  Mod97(Tail(chars), IF v < 10 THEN (acc * 10 + v) % 97
                                ELSE (acc * 100 + v) % 97)

\* is_valid_iban_checksum, for a value is_valid_iban_syntax accepted that
\* has no trailing newline
is_valid_iban_checksum(iban) ==
    LET rearranged_iban == SliceFrom(iban, 4) \o Slice(iban, 0, 4)
    IN  Mod97(rearranged_iban, 0) = 1

\* validate_IBAN.validate, the only method of the class
IBAN_validate(objs) ==
    [k \in DOMAIN objs |->
        LET o    == Assign(objs[k], "last_visited", <<Now>>)
            iban == o.value
        IN  IF ~is_valid_iban_syntax(iban)
            THEN Assign(Assign(o, "status", "check"), "status_message", "Invalid IBAN syntax")
            ELSE IF ~is_valid_iban_checksum(iban)
            THEN Assign(Assign(o, "status", "check"),
                        "status_message", "Invalid IBAN checksum")
            ELSE Assign(Assign(o, "status", "ok"), "status_message", "")]

\* every classification counts as registered
IsRegistered_Always(c) == TRUE

\* "classification in CLASS_MAPPING"
IsRegistered(c) == c \in CLASS_MAPPING

\* CLASS_MAPPING[classification]().validate_fast exists
HasValidateFast(c) == c \in {"URL", "VAT_ID"}

\* CLASS_MAPPING[classification]().validate_slow exists
HasValidateSlow(c) == c \in {"URL", "VAT_ID"}

validate_fast(c, objs) ==
    IF c = "URL" THEN URL_validate_fast(objs) ELSE VAT_validate_fast(objs)

\* ------------------------------------------------------------------------
\* The store: get_classifications, get_objects, update_objects
\* ------------------------------------------------------------------------

\* the rows a run of an earlier day leaves behind for a value: never visited,
\* or visited by that day's fast phase
BlankObject(key) ==
    [classification |-> key[1], value |-> key[2], status |-> None,
     status_message |-> None, last_visited |-> NoVisit,
     additional_information |-> None, written |-> {}]

RowOf(o) ==
    [status |-> o.status, status_message |-> o.status_message,
     last_visited |-> o.last_visited, additional_information |-> o.additional_information]

InitialRows(key) ==
    {RowOf(BlankObject(key))} \cup
    IF HasValidateFast(key[1])
    THEN {[RowOf(validate_fast(key[1], <<BlankObject(key)>>)[1])
              EXCEPT !.last_visited = <<Today - 1>>]}
    ELSE {}

\* SELECT DISTINCT CLASSIFICATION
ClassesOf(st) == {k[1] : k \in DOMAIN st}

\* the orders in which the rows of S can come back
Orderings(S) ==
    {f \in [1..Cardinality(S) -> S] : \A a, b \in 1..Cardinality(S) : a # b => f[a] # f[b]}

\* a WHERE clause whose slow mode leaves out only the rows that are ok
Eligible_SlowNotOk(st, key, classification, history, mode) ==
    /\ key[1] = classification
    /\ mode = "fast" => \/ st[key].last_visited = NoVisit
                        \/ st[key].last_visited[1] < Today + history
    /\ mode = "slow" => st[key].status # "ok"

\* the WHERE clause of get_objects
Eligible(st, key, classification, history, mode) ==
    /\ key[1] = classification
    /\ mode = "fast" => \/ st[key].last_visited = NoVisit
                        \/ st[key].last_visited[1] < Today + history
    /\ mode = "slow" => st[key].status = "formal ok"

\* COALESCE(LAST_VISITED,'2000-01-01')
Coalesce(lv) == IF lv = NoVisit THEN Epoch2000 ELSE lv[1]

\* ORDER BY COALESCE(LAST_VISITED,'2000-01-01') ASC, VALUE ASC
RowBefore(st, k1, k2) ==
    \/ Coalesce(st[k1].last_visited) < Coalesce(st[k2].last_visited)
    \/ /\ Coalesce(st[k1].last_visited) = Coalesce(st[k2].last_visited)
       /\ StrLess(k1[2], k2[2])

RECURSIVE Ordered(_, _)
Ordered(st, keys) ==
    IF keys = {} THEN <<>>
    ELSE LET first == CHOOSE k \in keys : \A j \in keys \ {k} : RowBefore(st, k, j)
         IN  <<first>> \o Ordered(st, keys \ {first})

\* a LIMIT that does not cut
Limit_Unbounded(seq, n) == seq

\* LIMIT batchsize
Limit(seq, n) == SubSeq(seq, 1, IF Len(seq) < n THEN Len(seq) ELSE n)

\* get_objects: the rows become ValidationObjects with last_visited None
get_objects(st, classification, batchsize, history, mode) ==
    LET keys == {k \in DOMAIN st : Eligible(st, k, classification, history, mode)}
        rows == Limit(Ordered(st, keys), batchsize)
    IN  [k \in DOMAIN rows |->
            [classification |-> rows[k][1], value |-> rows[k][2],
             status |-> st[rows[k]].status,
             status_message |-> st[rows[k]].status_message,
             last_visited |-> NoVisit,
             additional_information |-> st[rows[k]].additional_information,
             written |-> {}]]

\* parameters built for every object
Params_All(objs) == DOMAIN objs

\* the objects update_objects builds parameters for
Params(objs) == {k \in DOMAIN objs : objs[k].last_visited # NoVisit}

\* update_objects: executemany of the UPDATE, then commit
update_objects(st, objs) ==
    [key \in DOMAIN st |->
        LET hits == {k \in Params(objs) : <<objs[k].classification, objs[k].value>> = key}
        IN  IF hits = {} THEN st[key]
            ELSE RowOf(objs[CHOOSE k \in hits : \A j \in hits : j <= k])]

\* a failed update_objects that undoes the run's earlier updates
StoreAfterFailure_Rollback(st, objs) == {[key \in DOMAIN st |-> RowOf(BlankObject(key))]}

\* update_objects raising hdbcli.dbapi.Error: executemany or commit failed.
\* No transaction is opened and nothing is rolled back, so the table holds
\* the rows as they were, with the UPDATE applied to the parameter rows the
\* server had processed
StoreAfterFailure(st, objs) == {update_objects(st, SubSeq(objs, 1, m)) : m \in 0..Len(objs)}


\* ------------------------------------------------------------------------
\* validate_URL.validate_slow: one task per object, each probing its url
\* ------------------------------------------------------------------------

\* what requests.head / requests.get give: a response, or an exception
Responses == {[raised |-> FALSE, status_code |-> c] : c \in HttpCodes}
             \cup {[raised |-> TRUE, status_code |-> 0]}

\* f"HTTP error: {response.status_code}"
HttpErrorMessage(code) ==
    CASE code = 200 -> "HTTP error: 200"
      [] code = 400 -> "HTTP error: 400"
      [] code = 403 -> "HTTP error: 403"
      [] OTHER -> "HTTP error"

\* the response that decides ping_url: that of HEAD if it raised or is below
\* 400, else that of the fallback GET
FinalResponse(head, get) ==
    IF head.raised \/ head.status_code < 400 THEN head ELSE get

\* a probe whose fallback GET is outside the try block: its failure is
\* reported as an HTTP error
ping_url_GetUnguarded(head, get) ==
    IF head.raised THEN <<"check", "Exception: request failed">>
    ELSE IF head.status_code < 400 THEN <<"ok", "">>
    ELSE IF get.raised THEN <<"check", "HTTP error">>
    ELSE IF get.status_code < 400 THEN <<"ok", "">>
    ELSE <<"check", HttpErrorMessage(get.status_code)>>

\* ping_url: <<status, status_message>>
ping_url(head, get) ==
    IF head.raised THEN <<"check", "Exception: request failed">>
    ELSE IF head.status_code < 400 THEN <<"ok", "">>
    ELSE IF get.raised THEN <<"check", "Exception: request failed">>
    ELSE IF get.status_code < 400 THEN <<"ok", "">>
    ELSE <<"check", HttpErrorMessage(get.status_code)>>

\* a task that assigns the status of the probe and keeps the message
validate_object_KeepMessage(obj, head, get) ==
    LET o == Assign(obj, "last_visited", <<Now>>)
        r == ping_url(head, get)
    IN  Assign(o, "status", r[1])

\* validate_object of validate_slow
validate_object(obj, head, get) ==
    LET o == Assign(obj, "last_visited", <<Now>>)
        r == ping_url(head, get)
    IN  Assign(Assign(o, "status", r[1]), "status_message", r[2])

\* ------------------------------------------------------------------------
\* validate_VAT_ID.validate_slow: quota, bulk job, poll, results
\* ------------------------------------------------------------------------

\* the limit counts as reached only once it is exceeded
LimitReached_Strict(account) == account.total_count > account.limit

\* varsaccount["total_count"] >= varsaccount["limit"]
LimitReached(account) == account.total_count >= account.limit

\* the entry the service returns for a submitted identifier: country code
\* and number of the normalised identifier
ApiNumber(value, valid) ==
    LET v == Upper(Strip(value))
    IN  [country_code |-> Slice(v, 0, 2), vat_number |-> SliceFrom(v, 2), valid |-> valid]

\* the results of a finished job: for each submitted identifier no entry, an
\* entry saying valid, or an entry saying invalid, in the order submitted
RECURSIVE ApiNumbers(_)
ApiNumbers(vat_ids) ==
    IF vat_ids = <<>> THEN {<<>>}
    ELSE LET rest == ApiNumbers(Tail(vat_ids))
         IN  rest \cup {<<ApiNumber(Head(vat_ids), b)>> \o r : b \in BOOLEAN, r \in rest}

\* a loop body that stamps last_visited on every object of the batch
ApplyNumber_StampAll(objs, number) ==
    [k \in DOMAIN objs |->
        IF objs[k].value = number.country_code \o number.vat_number
        THEN Assign(Assign(Assign(Assign(objs[k], "last_visited", <<Now>>),
                                  "additional_information", ""),
                           "status", IF number.valid = FALSE THEN "check" ELSE "ok"),
                    "status_message", "")
        ELSE Assign(objs[k], "last_visited", <<Now>>)]

\* the body of "for obj in objects": the first object whose value is the
\* reconstructed identifier takes the result
ApplyNumber(objs, number) ==
    LET hits == {k \in DOMAIN objs : objs[k].value = number.country_code \o number.vat_number}
    IN  IF hits = {} THEN objs
        ELSE LET k == CHOOSE h \in hits : \A j \in hits : h <= j
                 o == Assign(objs[k], "last_visited", <<Now>>)
             IN  [objs EXCEPT ![k] =
                    IF number.valid = FALSE
                    THEN Assign(Assign(Assign(o, "additional_information", ""),
                                       "status", "check"),
                                "status_message", "Invalid VAT ID (API check)")
                    ELSE Assign(Assign(Assign(o, "additional_information", "trader_info"),
                                       "status", "ok"),
                                "status_message", "")]

\* "for number in numbers"
RECURSIVE ApplyNumbers(_, _)
ApplyNumbers(objs, numbers) ==
    IF numbers = <<>> THEN objs
    ELSE ApplyNumbers(ApplyNumber(objs, Head(numbers)), Tail(numbers))

\* an early return that hands back only the objects a result matched
ProcessResult_OnlyMatched(objs, numbers, errors) ==
    LET out == IF numbers = <<>> \/ errors THEN objs ELSE ApplyNumbers(objs, numbers)
    IN  SelectSeq(out, LAMBDA o : o.last_visited # NoVisit)

\* a result whose batch-level errors are not looked at
ProcessResult_IgnoreErrors(objs, numbers, errors) ==
    IF numbers = <<>> THEN objs ELSE ApplyNumbers(objs, numbers)

\* what a poll that returned a result gave: no numbers, errors, or numbers
ResultKind(numbers, errors) ==
    IF numbers = <<>> THEN "empty"
    ELSE IF errors THEN "batch_errors"
    ELSE "numbers"

\* the part of validate_slow after the poll loop
ProcessResult(objs, numbers, errors) ==
    IF numbers = <<>> THEN objs
    ELSE IF errors THEN objs
    ELSE ApplyNumbers(objs, numbers)


\* ------------------------------------------------------------------------
\* main(): the state of a run
\* ------------------------------------------------------------------------

VARIABLES
    store,            \* GENIUS.SHARED_NAIGENT_DATA: <<classification, value>> -> row
    config,           \* config.ini: batchsize_fast, batchsize_slow, history
    connection,       \* "unbound", "open" or "closed"
    classifications,  \* the list get_classifications returned
    pc,               \* where main() is
    sweep,            \* the while loop main() is in, or has left: none, fast, slow, over
    idx,              \* the position of the for loop in classifications
    final,            \* final[classification] of the running round
    objects,          \* the batch in hand
    tasks,            \* the futures of validate_URL.validate_slow not yet done
    vat,              \* validate_VAT_ID.validate_slow: account read, job submitted, polls
                      \* made, what the last poll gave, entries of the result
    exc,              \* the exception raised in the try block
    outcome,          \* how main() ended
    store0,           \* history: the store when the run began
    fetched,          \* history: the batch as get_objects returned it
    rounds,           \* history: iterations of the while loop of the fast sweep
    turns,            \* history: per classification, what the running round did
    fastComplete,     \* history: the fast sweep ended on a round of empty fetches
    called,           \* history: <<classification, phase>> of validator calls
    quotaSkipped,     \* history: rows returned untouched because of the quota
    probe             \* history: the deciding response of each task of the call

vars == <<store, config, connection, classifications, pc, sweep, idx, final, objects, tasks,
          vat, exc, outcome, store0, fetched, rounds, turns, fastComplete, called,
          quotaSkipped, probe>>

\* the stores a run can start on: at most MaxRows rows
InitialRowTable == [k \in AllKeys |-> InitialRows(k)]

InitialStores ==
    UNION { {st \in [keys -> UNION {InitialRowTable[k] : k \in keys}] :
                \A k \in keys : st[k] \in InitialRowTable[k]} :
            keys \in {K \in SUBSET AllKeys : Cardinality(K) <= MaxRows} }

NoTurns == [c \in {} |-> 0]

Init ==
    /\ store \in InitialStores
    /\ config \in [batchsize_fast : BatchSizes, batchsize_slow : BatchSizes,
                   history : Histories]
    /\ connection = "unbound"
    /\ classifications = <<>>
    /\ pc = "connect"
    /\ sweep = "none"
    /\ idx = 1
    /\ final = <<>>
    /\ objects = <<>>
    /\ tasks = {}
    /\ vat = [account |-> [available |-> FALSE, total_count |-> 0, limit |-> 0],
              submitted |-> FALSE, polls |-> 0, result |-> "none", entries |-> 0]
    /\ exc = "none"
    /\ outcome = "running"
    /\ store0 = store
    /\ fetched = <<>>
    /\ rounds = 0
    /\ turns = NoTurns
    /\ fastComplete = FALSE
    /\ called = {}
    /\ quotaSkipped = {}
    /\ probe = <<>>

\* the current classification of the for loop
Current == classifications[idx]

\* any(final.values())
AllFinal_Any(f) == \E c \in DOMAIN f : f[c]

\* all(final.values())
AllFinal(f) == \A c \in DOMAIN f : f[c]

\* the number of rows get_objects could select
Backlog(st, c, history, mode) ==
    Cardinality({k \in DOMAIN st : Eligible(st, k, c, history, mode)})

\* "finally: if connection: connection.close()": the connection afterwards;
\* the name is unbound when get_connection raised
ConnectionAfterFinally(conn) == IF conn = "unbound" THEN conn ELSE "closed"

\* how main() ends after the finally clause: reading the unbound name raises
OutcomeAfterFinally(conn, out) == IF conn = "unbound" THEN "unbound_local_error" ELSE out

\* an hdbcli.dbapi.Error, or any other exception, leaves the try block and
\* main() unwinds: "except hdbcli.dbapi.Error" logs it, "except Exception"
\* logs it and raises, then the finally clause runs
Raise(kind) ==
    /\ exc' = kind
    /\ connection' = ConnectionAfterFinally(connection)
    /\ outcome' = OutcomeAfterFinally(connection,
                                      IF kind = "dbapi" THEN "db_error" ELSE "raised")
    /\ pc' = "exit"

PcFetch(phase) == IF phase = "fast" THEN "fast_fetch" ELSE "slow_fetch"

PcEnd(phase) == IF phase = "fast" THEN "fast_end" ELSE "slow_end"

\* a round that begins with the flags the round before left
StartRound_KeepFinal(phase, cls) ==
    /\ final' = IF DOMAIN final = Range(cls) THEN final ELSE [c \in Range(cls) |-> FALSE]
    /\ idx' = 1
    /\ turns' = [c \in Range(cls) |->
                    [fetches |-> 0, eligible |-> 0, got |-> 0, calls |-> 0]]
    /\ pc' = IF cls = <<>> THEN PcEnd(phase) ELSE PcFetch(phase)

\* "final = {classification: False ...}" and the start of the for loop
StartRound(phase, cls) ==
    /\ final' = [c \in Range(cls) |-> FALSE]
    /\ idx' = 1
    /\ turns' = [c \in Range(cls) |->
                    [fetches |-> 0, eligible |-> 0, got |-> 0, calls |-> 0]]
    /\ pc' = IF cls = <<>> THEN PcEnd(phase) ELSE PcFetch(phase)

\* a loop that stays with a classification until its fetch is empty
NextTurn_Drain(phase) ==
    IF pc \in {"fast_update", "slow_update"}
    THEN idx' = idx /\ pc' = PcFetch(phase)
    ELSE IF idx < Len(classifications)
         THEN idx' = idx + 1 /\ pc' = PcFetch(phase)
         ELSE idx' = idx /\ pc' = PcEnd(phase)

\* the next classification of the for loop, or the end of the round
NextTurn(phase) ==
    IF idx < Len(classifications)
    THEN idx' = idx + 1 /\ pc' = PcFetch(phase)
    ELSE idx' = idx /\ pc' = PcEnd(phase)

CountRound(n) == IF n < MaxRounds THEN n + 1 ELSE n


\* ------------------------------------------------------------------------
\* main(): connection, classifications
\* ------------------------------------------------------------------------

\* no exception is raised by the step
NoRaise == UNCHANGED <<exc, outcome, connection>>

\* the state of a validate_slow call before it begins and after it is used
NoVat == [account |-> [available |-> FALSE, total_count |-> 0, limit |-> 0],
          submitted |-> FALSE, polls |-> 0, result |-> "none", entries |-> 0]

\* connection = get_connection()
Connect ==
    /\ pc = "connect"
    /\ \/ connection' = "open" /\ pc' = "classify" /\ UNCHANGED <<exc, outcome>>
       \/ Raise("dbapi")
    /\ UNCHANGED <<sweep, store, config, classifications, idx, final, objects, tasks, vat,
                   store0, fetched, rounds, turns, fastComplete, called,
                   quotaSkipped, probe>>

\* classifications = get_classifications(connection), the configuration is
\* read, and the fast sweep begins its first round
GetClassifications ==
    /\ pc = "classify"
    /\ \/ \E order \in Orderings(ClassesOf(store)) :
            /\ classifications' = order
            /\ sweep' = "fast"
            /\ StartRound("fast", order)
            /\ rounds' = 1
            /\ NoRaise
       \/ /\ Raise("dbapi")
          /\ UNCHANGED <<classifications, sweep, idx, final, turns, rounds>>
    /\ UNCHANGED <<store, config, objects, tasks, vat, store0,
                   fetched, fastComplete, called, quotaSkipped, probe>>

\* ------------------------------------------------------------------------
\* main(): a sweep's fetch and update, common to both sweeps
\* ------------------------------------------------------------------------

\* objects = get_objects(...); an empty batch sets final and continues
Fetch(phase, batchsize) ==
    \/ LET objs == get_objects(store, Current, batchsize, config.history, phase)
       IN  /\ objects' = objs
           /\ fetched' = objs
           /\ turns' = [turns EXCEPT ![Current] =
                           [@ EXCEPT !.fetches = @ + 1,
                                     !.eligible = Backlog(store, Current, config.history, phase),
                                     !.got = Len(objs)]]
           /\ IF Len(objs) = 0
              THEN final' = [final EXCEPT ![Current] = TRUE] /\ NextTurn(phase)
              ELSE final' = final /\ idx' = idx
                   /\ pc' = IF phase = "fast" THEN "fast_validate" ELSE "slow_validate"
           /\ NoRaise
    \/ /\ Raise("dbapi")
       /\ UNCHANGED <<objects, fetched, turns, final, idx>>

\* update_objects(connection, validated_objects), then the next classification
Update(phase) ==
    \/ /\ store' = update_objects(store, objects)
       /\ NextTurn(phase)
       /\ NoRaise
    \/ /\ Raise("dbapi")
       /\ store' \in StoreAfterFailure(store, objects)
       /\ idx' = idx

\* ------------------------------------------------------------------------
\* main(): the fast sweep
\* ------------------------------------------------------------------------

FastFetch ==
    /\ pc = "fast_fetch"
    /\ Fetch("fast", config.batchsize_fast)
    /\ UNCHANGED <<sweep, store, config, classifications, tasks, vat,
                   store0, rounds, fastComplete, called, quotaSkipped, probe>>

\* "if classification in CLASS_MAPPING": validator.validate_fast(objects), or
\* the warning
FastValidate ==
    /\ pc = "fast_validate"
    /\ IF IsRegistered(Current)
       THEN IF HasValidateFast(Current)
            THEN /\ objects' = validate_fast(Current, objects)
                 /\ called' = called \cup {<<Current, "fast">>}
                 /\ turns' = [turns EXCEPT ![Current].calls = @ + 1]
                 /\ pc' = "fast_update"
                 /\ idx' = idx
                 /\ NoRaise
            ELSE /\ Raise("other")
                 /\ UNCHANGED <<objects, called, turns, idx>>
       ELSE /\ NextTurn("fast")
            /\ NoRaise
            /\ UNCHANGED <<objects, called, turns>>
    /\ UNCHANGED <<sweep, store, config, classifications, final, tasks, vat,
                   store0, fetched, rounds, fastComplete, quotaSkipped, probe>>

FastUpdate ==
    /\ pc = "fast_update"
    /\ Update("fast")
    /\ UNCHANGED <<sweep, config, classifications, final, objects, tasks, vat,
                   store0, fetched, rounds, turns, fastComplete, called,
                   quotaSkipped, probe>>

\* every classification fetched once in the round, every fetch empty
RoundAllEmpty == \A c \in DOMAIN turns : turns[c].fetches = 1 /\ turns[c].got = 0

\* "if all(final.values()): break", else the next round of the fast sweep
FastRoundEnd ==
    /\ pc = "fast_end"
    /\ IF AllFinal(final)
       THEN /\ sweep' = "slow"
            /\ fastComplete' = RoundAllEmpty
            /\ rounds' = rounds
            /\ StartRound("slow", classifications)
       ELSE /\ sweep' = sweep
            /\ fastComplete' = fastComplete
            /\ rounds' = CountRound(rounds)
            /\ StartRound("fast", classifications)
    /\ UNCHANGED <<store, config, connection, classifications, objects, tasks, vat,
                   exc, outcome, store0, fetched, called, quotaSkipped, probe>>

\* ------------------------------------------------------------------------
\* main(): the slow sweep
\* ------------------------------------------------------------------------

SlowFetch ==
    /\ pc = "slow_fetch"
    /\ Fetch("slow", config.batchsize_slow)
    /\ UNCHANGED <<sweep, store, config, classifications, tasks, vat,
                   store0, rounds, fastComplete, called, quotaSkipped, probe>>

\* what get_account_status can return: nothing, or the counters of the account
AccountAnswers ==
    {[available |-> FALSE, total_count |-> 0, limit |-> 0]}
    \cup {[available |-> TRUE, total_count |-> a.total_count, limit |-> a.limit] :
             a \in AccountStatuses}

\* validate_VAT_ID.validate_slow up to the poll loop: the quota is read; at the
\* limit the objects are returned, otherwise the bulk job is submitted
VatSubmit(account) ==
    IF account.available /\ LimitReached(account)
    THEN /\ vat' = [account |-> account, submitted |-> FALSE, polls |-> 0, result |-> "none", entries |-> 0]
         /\ quotaSkipped' = quotaSkipped \cup
                {<<objects[k].classification, objects[k].value>> : k \in DOMAIN objects}
         /\ pc' = "slow_update"
    ELSE /\ vat' = [account |-> account, submitted |-> TRUE, polls |-> 0, result |-> "none", entries |-> 0]
         /\ quotaSkipped' = quotaSkipped
         /\ pc' = "vat_poll"

\* "if classification in CLASS_MAPPING": validator.validate_slow(objects)
\* begins, or the warning
SlowValidate ==
    /\ pc = "slow_validate"
    /\ IF IsRegistered(Current)
       THEN IF HasValidateSlow(Current)
            THEN /\ called' = called \cup {<<Current, "slow">>}
                 /\ turns' = [turns EXCEPT ![Current].calls = @ + 1]
                 /\ IF Current = "URL"
                    THEN /\ tasks' = DOMAIN objects
                         /\ probe' = [k \in DOMAIN objects |->
                                         [raised |-> FALSE, status_code |-> 0]]
                         /\ pc' = "url_tasks"
                         /\ UNCHANGED <<vat, quotaSkipped>>
                    ELSE /\ \E account \in AccountAnswers : VatSubmit(account)
                         /\ UNCHANGED <<tasks, probe>>
                 /\ idx' = idx
                 /\ NoRaise
            ELSE /\ Raise("other")
                 /\ UNCHANGED <<called, turns, tasks, probe, vat, quotaSkipped, idx>>
       ELSE /\ NextTurn("slow")
            /\ NoRaise
            /\ UNCHANGED <<called, turns, tasks, probe, vat, quotaSkipped>>
    /\ UNCHANGED <<sweep, store, config, classifications, final, objects,
                   store0, fetched, rounds, fastComplete>>

\* one task of the executor runs validate_object on its object
UrlTask(k) ==
    /\ pc = "url_tasks"
    /\ k \in tasks
    /\ \E head \in Responses, get \in Responses :
          /\ objects' = [objects EXCEPT ![k] = validate_object(@, head, get)]
          /\ probe' = [probe EXCEPT ![k] = FinalResponse(head, get)]
    /\ tasks' = tasks \ {k}
    /\ UNCHANGED <<sweep, store, config, connection, classifications, pc, idx, final, vat, exc,
                   outcome, store0, fetched, rounds, turns, fastComplete, called,
                   quotaSkipped>>

\* a return that does not wait for the futures
UrlJoin_Early ==
    /\ pc = "url_tasks"
    /\ pc' = "slow_update"
    /\ UNCHANGED <<sweep, store, config, connection, classifications, idx, final, objects,
                   tasks, vat, exc, outcome, store0, fetched, rounds, turns,
                   fastComplete, called, quotaSkipped, probe>>

\* as_completed has yielded every future: validate_slow returns objects
UrlJoin ==
    /\ pc = "url_tasks"
    /\ tasks = {}
    /\ pc' = "slow_update"
    /\ UNCHANGED <<sweep, store, config, connection, classifications, idx, final, objects,
                   tasks, vat, exc, outcome, store0, fetched, rounds, turns,
                   fastComplete, called, quotaSkipped, probe>>

\* the values submitted: vat_ids = [obj.value for obj in objects]
VatIds(objs) == [k \in DOMAIN objs |-> objs[k].value]

\* one get_vies_data_async_result: the result, an error, or still processing
VatPoll ==
    /\ pc = "vat_poll"
    /\ \/ \E numbers \in ApiNumbers(VatIds(objects)), errors \in BOOLEAN :
            /\ objects' = ProcessResult(objects, numbers, errors)
            /\ vat' = [vat EXCEPT !.polls = @ + 1, !.result = ResultKind(numbers, errors),
                               !.entries = Len(numbers)]
            /\ pc' = "slow_update"
       \/ /\ objects' = objects
          /\ vat' = [vat EXCEPT !.polls = @ + 1, !.result = "error"]
          /\ pc' = "slow_update"
       \/ /\ vat.polls < MaxPolls
          /\ objects' = objects
          /\ vat' = [vat EXCEPT !.polls = @ + 1, !.result = "processing"]
          /\ pc' = pc
    /\ UNCHANGED <<sweep, store, config, connection, classifications, idx, final, tasks, exc,
                   outcome, store0, fetched, rounds, turns, fastComplete, called,
                   quotaSkipped, probe>>

\* "if validated_objects is None or len(validated_objects) == 0: continue",
\* else update_objects; the call's own state is gone
SlowUpdate ==
    /\ pc = "slow_update"
    /\ IF Len(objects) = 0
       THEN NextTurn("slow") /\ NoRaise /\ store' = store
       ELSE Update("slow")
    /\ vat' = NoVat
    /\ probe' = <<>>
    /\ UNCHANGED <<sweep, config, classifications, final, objects, tasks,
                   store0, fetched, rounds, turns, fastComplete, called,
                   quotaSkipped>>

\* "if all(final.values()): break", else the next round of the slow sweep
SlowRoundEnd ==
    /\ pc = "slow_end"
    /\ IF AllFinal(final)
       THEN /\ sweep' = "over"
            /\ pc' = "else"
            /\ UNCHANGED <<final, idx, turns>>
       ELSE /\ sweep' = sweep
            /\ StartRound("slow", classifications)
    /\ UNCHANGED <<store, config, connection, classifications, objects, tasks, vat,
                   exc, outcome, store0, fetched, rounds, fastComplete, called,
                   quotaSkipped, probe>>

\* ------------------------------------------------------------------------
\* main(): else, finally
\* ------------------------------------------------------------------------

\* "else": no exception left the try block
Else ==
    /\ pc = "else"
    /\ outcome' = "finished"
    /\ pc' = "finally"
    /\ UNCHANGED <<sweep, store, config, connection, classifications, idx, final, objects,
                   tasks, vat, exc, store0, fetched, rounds, turns, fastComplete,
                   called, quotaSkipped, probe>>

\* the finally clause after the else clause
Finally ==
    /\ pc = "finally"
    /\ connection' = ConnectionAfterFinally(connection)
    /\ outcome' = OutcomeAfterFinally(connection, outcome)
    /\ pc' = "exit"
    /\ UNCHANGED <<sweep, store, config, classifications, idx, final, objects, tasks, vat,
                   exc, store0, fetched, rounds, turns, fastComplete, called,
                   quotaSkipped, probe>>

Next ==
    \/ Connect
    \/ GetClassifications
    \/ FastFetch
    \/ FastValidate
    \/ FastUpdate
    \/ FastRoundEnd
    \/ SlowFetch
    \/ SlowValidate
    \/ \E k \in 1..MaxRows : UrlTask(k)
    \/ UrlJoin
    \/ VatPoll
    \/ SlowUpdate
    \/ SlowRoundEnd
    \/ Else
    \/ Finally

Spec == Init /\ [][Next]_vars

\* ------------------------------------------------------------------------
\* C1: convergence of the fast sweep
\* ------------------------------------------------------------------------

\* ceil(a / b)
CeilDiv(a, b) == (a + b - 1) \div b

\* every classification of the store has a registered validator with a fast phase
FastCapable == \A c \in ClassesOf(store0) : c \in CLASS_MAPPING /\ HasValidateFast(c)

\* the largest backlog of a classification when the fast sweep begins
MaxBacklog ==
    LET sizes == {Backlog(store0, c, config.history, "fast") : c \in ClassesOf(store0)} \cup {0}
    IN  CHOOSE n \in sizes : \A m \in sizes : m <= n

\* the rounds the claim names
ClaimedRounds == CeilDiv(MaxBacklog, config.batchsize_fast)

\* a refreshed row is not eligible again: the staleness window is not positive
Draining == config.history <= 0

InSlowSweep ==
    pc \in {"slow_fetch", "slow_validate", "url_tasks", "vat_poll", "slow_update", "slow_end"}

\* C2: no slow-mode fetch and no validate_slow call happens unless the fast
\* sweep has ended on a round in which every classification was fetched once
\* and every fetch returned an empty batch
C2_SlowAfterFast ==
    (InSlowSweep \/ sweep \in {"slow", "over"} \/ \E c \in CLASS_MAPPING : <<c, "slow">> \in called)
        => fastComplete

\* the slow sweep has fetched a batch after a fast sweep that validated one
C2_Witness ==
    /\ pc = "slow_validate"
    /\ \E c \in CLASS_MAPPING : <<c, "fast">> \in called
    /\ fastComplete

\* ------------------------------------------------------------------------
\* C3: the slow sweep selects formal ok rows only
\* ------------------------------------------------------------------------

\* a batch is in the hands of validate_slow, or about to be persisted
SlowBatchInHand == pc \in {"slow_validate", "url_tasks", "vat_poll", "slow_update"}

KeyOf(o) == <<o.classification, o.value>>

\* C3: every object of a slow-mode batch was fetched with status formal ok,
\* which is its stored status; no row stored as check, ok or unset is in it
C3_SlowOnlyFormalOk ==
    SlowBatchInHand =>
        /\ \A k \in DOMAIN fetched :
              fetched[k].status = "formal ok" /\ store[KeyOf(fetched[k])].status = "formal ok"
        /\ \A key \in DOMAIN store :
              store[key].status # "formal ok" => \A k \in DOMAIN fetched : KeyOf(fetched[k]) # key

\* a slow-mode batch of a classification that also holds a row the fast phase
\* set to check
C3_Witness ==
    /\ pc = "slow_validate"
    /\ Len(fetched) > 0
    /\ \E key \in DOMAIN store :
          /\ key[1] = Current
          /\ store[key].status = "check"
          /\ store[key].last_visited = <<Now>>

\* ------------------------------------------------------------------------
\* C4: the quota back-off of validate_VAT_ID.validate_slow
\* ------------------------------------------------------------------------

\* the account status read by the running call reports total_count >= limit
QuotaExhausted == vat.account.available /\ vat.account.total_count >= vat.account.limit

C5_QuotaDeferred ==
    pc = "slow_validate" =>
        \A k \in DOMAIN fetched : KeyOf(fetched[k]) \notin quotaSkipped

\* ------------------------------------------------------------------------
\* C6: one batch per classification per round
\* ------------------------------------------------------------------------

\* the batch size of the sweep the round belongs to
BatchSizeOfSweep ==
    IF sweep = "fast" THEN config.batchsize_fast ELSE config.batchsize_slow

Min(a, b) == IF a < b THEN a ELSE b

\* the for loop of the round has visited every classification
RoundDone == pc \in {"fast_end", "slow_end"}

\* C6: within a round every classification is fetched at most once and
\* validated at most once, its batch holds at most batch_size records, and a
\* classification with eligible records at its turn gets a batch of them; at
\* the end of the round every classification has had its turn, whatever the
\* other classifications still hold
C6_RoundRobin ==
    /\ \A c \in DOMAIN turns :
          /\ turns[c].fetches <= 1
          /\ turns[c].calls <= 1
          /\ turns[c].got <= BatchSizeOfSweep
          /\ turns[c].fetches = 1 => turns[c].got = Min(BatchSizeOfSweep, turns[c].eligible)
          /\ turns[c].calls = 1 => turns[c].got > 0
    /\ RoundDone =>
          \A c \in DOMAIN turns :
              /\ turns[c].fetches = 1
              /\ (c \in CLASS_MAPPING /\ turns[c].got > 0) => turns[c].calls = 1

\* the end of a round in which two classifications each had a batch of one
\* validated
C6_Witness ==
    /\ RoundDone
    /\ \E c1, c2 \in DOMAIN turns :
          /\ c1 # c2
          /\ turns[c1].got = 1 /\ turns[c1].calls = 1
          /\ turns[c2].got = 1 /\ turns[c2].calls = 1

\* ------------------------------------------------------------------------
\* C7: last_visited is set exactly on the records a call evaluated
\* ------------------------------------------------------------------------

\* a validator call has begun on the batch in hand
ValidatorCalled == pc \in {"fast_update", "url_tasks", "vat_poll", "slow_update"}

C8_Totality ==
    /\ ValidatorCalled =>
          /\ Len(objects) = Len(fetched)
          /\ \A k \in DOMAIN objects : KeyOf(objects[k]) = KeyOf(fetched[k])
    /\ \A c \in {"URL", "VAT_ID"} : validate_fast(c, <<>>) = <<>>
    /\ \A errors \in BOOLEAN : ProcessResult(<<>>, <<>>, errors) = <<>>

\* a submitted VAT_ID job whose result left a record of the batch unmatched,
\* or whose poll ended in an error: the batch comes back whole
C8_Witness ==
    /\ pc = "slow_update"
    /\ Current = "VAT_ID"
    /\ vat.submitted
    /\ Len(objects) = 2
    /\ \E k \in DOMAIN objects : objects[k].last_visited = NoVisit

\* ------------------------------------------------------------------------
\* C9: a classification without a validator
\* ------------------------------------------------------------------------

\* C9: for a classification that is not in CLASS_MAPPING no validator is
\* called, its rows stay as they were when the run began, and no exception
\* is raised at its turn
C9_UnregisteredUntouched ==
    /\ \A cp \in called : cp[1] \in CLASS_MAPPING
    /\ \A key \in DOMAIN store : key[1] \notin CLASS_MAPPING => store[key] = store0[key]
    /\ (exc = "other" /\ classifications # <<>>) => Current \in CLASS_MAPPING

\* the for loop has gone past a classification without a validator whose
\* fetch returned a record
C9_Witness ==
    /\ exc = "none"
    /\ \E c \in DOMAIN turns :
          /\ c \notin CLASS_MAPPING
          /\ turns[c].got = 1
          /\ turns[c].calls = 0
          /\ classifications # <<>> /\ (Current # c \/ RoundDone)

\* ------------------------------------------------------------------------
\* C10: the outcome of the probe of validate_URL.validate_slow
\* ------------------------------------------------------------------------

\* C10: a record whose probe ended on status code 403 is ok; one whose probe
\* ended on a status code below 400 is ok with an empty message; one whose
\* probe ended on any other status code is check with a message carrying the
\* code
C10_OutcomeMapping ==
    (pc = "slow_update" /\ classifications # <<>> /\ Current = "URL") =>
        \A k \in DOMAIN probe :
            ~probe[k].raised =>
                IF probe[k].status_code = 403
                THEN objects[k].status = "ok"
                ELSE IF probe[k].status_code < 400
                THEN objects[k].status = "ok" /\ objects[k].status_message = ""
                ELSE /\ objects[k].status = "check"
                     /\ objects[k].status_message = HttpErrorMessage(probe[k].status_code)

\* ------------------------------------------------------------------------
\* C11: exceptions of the probes of validate_URL.validate_slow
\* ------------------------------------------------------------------------

\* validate_URL.validate_slow is running, or has returned its batch
UrlSlowCall ==
    /\ classifications # <<>>
    /\ Current = "URL"
    /\ pc \in {"url_tasks", "slow_update"}

\* C11: whatever the probes of a batch do, validate_URL.validate_slow raises
\* nothing; a record whose HEAD or fallback GET raised is check with the
\* exception text as message, and every other record has the outcome of its
\* own probe
C11_ExceptionContained ==
    UrlSlowCall =>
        /\ exc = "none" /\ outcome = "running"
        /\ \A k \in DOMAIN objects \ tasks :
              IF probe[k].raised
              THEN /\ objects[k].status = "check"
                   /\ objects[k].status_message = "Exception: request failed"
              ELSE /\ objects[k].status = "ok" <=> probe[k].status_code < 400
                   /\ objects[k].status_message # "Exception: request failed"

\* a returned batch of two: the probe of one record raised, that of the
\* other answered below 400
C11_Witness ==
    /\ UrlSlowCall
    /\ pc = "slow_update"
    /\ \E j, k \in DOMAIN objects :
          /\ probe[j].raised /\ objects[j].status = "check"
          /\ ~probe[k].raised /\ objects[k].status = "ok"

\* ------------------------------------------------------------------------
\* C12: validate_URL.validate_slow returns after its last task
\* ------------------------------------------------------------------------

\* C12: while the tasks run, a record is untouched exactly as long as its task
\* is pending; when validate_slow has returned no task is left, and every
\* record has last_visited set and status ok or check; no task exists outside
\* the call
C12_JoinBarrier ==
    /\ pc = "url_tasks" =>
          /\ tasks \subseteq DOMAIN objects
          /\ \A k \in DOMAIN objects : k \in tasks <=> objects[k].written = {}
    /\ pc # "url_tasks" => tasks = {}
    /\ (classifications # <<>> /\ Current = "URL" /\ pc = "slow_update") =>
          \A k \in DOMAIN objects :
              /\ objects[k].last_visited = <<Now>>
              /\ objects[k].status \in {"ok", "check"}
              /\ objects[k].written = {"last_visited", "status", "status_message"}

\* a batch of two returned after both tasks ran
C12_Witness ==
    /\ classifications # <<>>
    /\ Current = "URL"
    /\ pc = "slow_update"
    /\ Len(objects) = 2
    /\ tasks = {}
    /\ \A k \in DOMAIN objects : objects[k].status \in {"ok", "check"}

\* ------------------------------------------------------------------------
\* C13: an error of the store
\* ------------------------------------------------------------------------

\* the keys of the rows update_objects has parameters for
ParamKeys(objs) == {KeyOf(objs[k]) : k \in Params(objs)}

\* C13: the step in which get_objects or update_objects raises a store error
\* ends the run and leaves every row as the earlier updates wrote it, except
\* rows of the batch being persisted, which may hold their new values; after
\* an error there is no further fetch, validator call or update
C13_AbortNoRollback ==
    [][/\ exc # "none" =>
             UNCHANGED <<store, objects, fetched, called, turns, pc>>
       /\ (exc = "none" /\ exc' = "dbapi") =>
             /\ pc' = "exit"
             /\ UNCHANGED <<objects, fetched, called, turns>>
             /\ \A key \in DOMAIN store :
                   \/ store'[key] = store[key]
                   \/ /\ pc \in {"fast_update", "slow_update"}
                      /\ key \in ParamKeys(objects)
                      /\ \E k \in Params(objects) :
                            KeyOf(objects[k]) = key /\ store'[key] = RowOf(objects[k])]_vars

\* the run ended on a store error in the slow sweep, and the store holds
\* what the updates before the error wrote
C13_Witness ==
    /\ pc = "exit"
    /\ exc = "dbapi"
    /\ outcome = "db_error"
    /\ sweep = "slow"
    /\ \E key \in DOMAIN store :
          store[key] # store0[key] /\ store[key].last_visited = <<Now>>

\* ------------------------------------------------------------------------
\* C14: validate_fast reads the value only
\* ------------------------------------------------------------------------

\* what a record can hold in the fields other than classification and value
PriorFields ==
    [status : {None, "check", "formal ok", "ok"},
     status_message : {None, "", "Invalid URL syntax", "Invalid VAT ID checksum"},
     last_visited : {NoVisit, <<Today - 1>>, <<Now>>},
     additional_information : {None, "trader_info"}]

\* the record o with the fields of p
WithPrior(o, p) ==
    [o EXCEPT !.status = p.status, !.status_message = p.status_message,
              !.last_visited = p.last_visited,
              !.additional_information = p.additional_information]

\* the rows a fast phase exists for
FastKeys == {k \in AllKeys : HasValidateFast(k[1])}

\* <<status, status_message>> validate_fast gives the row key when the row
\* holds the fields p
FastVerdict(key, p) ==
    LET r == validate_fast(key[1], <<WithPrior(BlankObject(key), p)>>)[1]
    IN  <<r.status, r.status_message>>

\* the verdict on a row that was never visited
BlankVerdict == [key \in FastKeys |-> FastVerdict(key, RowOf(BlankObject(key)))]

\* the verdict is the same whatever the row holds
VerdictIgnoresPrior ==
    \A key \in FastKeys : \A p \in PriorFields : FastVerdict(key, p) = BlankVerdict[key]

\* validate_fast has returned the batch in hand
FastReturned == pc = "fast_update"

\* C14: for URL and VAT_ID, the status and status_message validate_fast gave
\* a record are those it gives the same value under any other status,
\* message, last_visited and additional_information, and those a second
\* application to its own result gives
C14_FastReadsValueOnly ==
    FastReturned =>
        LET again == validate_fast(Current, objects)
        IN  /\ VerdictIgnoresPrior
            /\ \A k \in DOMAIN objects :
                  /\ again[k].status = objects[k].status
                  /\ again[k].status_message = objects[k].status_message
                  /\ BlankVerdict[KeyOf(objects[k])] =
                         <<objects[k].status, objects[k].status_message>>

\* validate_fast has returned a record that a fast phase had set to check
\* before, with the same verdict
C14_Witness ==
    /\ FastReturned
    /\ \E k \in DOMAIN objects :
          /\ fetched[k].status = "check"
          /\ objects[k].status = "check"
          /\ objects[k].status_message = fetched[k].status_message
          /\ objects[k].last_visited = <<Now>>

\* ------------------------------------------------------------------------
\* C15: the records of classification IBAN
\* ------------------------------------------------------------------------

\* the IBAN rows the fast sweep could select when the run began
EligibleIbans ==
    {key \in DOMAIN store0 : Eligible(store0, key, "IBAN", config.history, "fast")}

\* C15: a run that began with an eligible IBAN record and met no store error
\* does not abort, and ends with the record persisted: last_visited set,
\* status ok with an empty message for a valid IBAN, check with its message
\* otherwise
C15_IbanUpToDate ==
    (pc = "exit" /\ exc # "dbapi" /\ EligibleIbans # {}) =>
        /\ outcome = "finished"
        /\ \A key \in EligibleIbans :
              store[key] = RowOf(IBAN_validate(<<BlankObject(key)>>)[1])

\* ------------------------------------------------------------------------
\* C16: status and status_message agree
\* ------------------------------------------------------------------------

\* ok goes with the empty message, check and formal ok with a message
Agree(status, status_message) ==
    /\ status \in {"ok", "check", "formal ok"}
    /\ status = "ok" => status_message = ""
    /\ status \in {"check", "formal ok"} => status_message \notin {"", None}

\* IBAN values: valid, wrong checksum, wrong syntax
IbanSamples ==
    IbanValues \cup
    { <<"G", "B", "8", "2", "W", "E", "S", "T", "1", "2", "3", "4", "5", "6",
        "9", "8", "7", "6", "5", "4", "3", "3">>,
      <<"G", "B", "8">> }

\* the records validate_IBAN.validate returns for the samples agree, and the
\* samples meet its three outcomes
IbanAgrees ==
    LET out == {IBAN_validate(<<BlankObject(<<"IBAN", v>>)>>)[1] : v \in IbanSamples}
    IN  /\ \A o \in out : Agree(o.status, o.status_message)
        /\ {o.status_message : o \in out} =
               {"", "Invalid IBAN syntax", "Invalid IBAN checksum"}

\* C16: every record whose status a validator call assigned, in the batch in
\* hand and in the rows this run wrote, is ok with an empty message, or check
\* or formal ok with a message; so are the records validate_IBAN.validate
\* returns
C16_StatusMessage ==
    /\ \A k \in DOMAIN objects :
          "status" \in objects[k].written =>
              Agree(objects[k].status, objects[k].status_message)
    /\ \A key \in DOMAIN store :
          store[key] # store0[key] => Agree(store[key].status, store[key].status_message)
    /\ pc = "exit" => IbanAgrees

\* the run has written a row that is ok with an empty message and a row that
\* is check with the message of the fast phase
C16_Witness ==
    \E j, k \in DOMAIN store :
        /\ store[j] # store0[j] /\ store[j].status = "ok" /\ store[j].status_message = ""
        /\ store[k] # store0[k] /\ store[k].status = "check"
        /\ store[k].status_message = "Invalid URL syntax"

\* ------------------------------------------------------------------------
\* C17: the connection at the end of main()
\* ------------------------------------------------------------------------

\* C17: when main() has ended, on whatever path, the finally clause has
\* raised no error of its own, and a connection that was opened is closed
C17_ConnectionReleased ==
    pc = "exit" =>
        /\ outcome # "unbound_local_error"
        /\ connection \in {"unbound", "closed"}

\* ------------------------------------------------------------------------
\* C18: the poll loop of validate_VAT_ID.validate_slow
\* ------------------------------------------------------------------------

\* validate_VAT_ID.validate_slow has submitted its job
VatJob == classifications # <<>> /\ Current = "VAT_ID" /\ vat.submitted

\* C18: polls are made only for a submitted job; while the polls answer
\* "still processing" the call stays in the loop, the batch as fetched; the
\* first poll that gives a result or another error ends the loop; after
\* another error, a result without numbers or a result with batch-level errors
\* the batch is returned as fetched, and a record differs from what was
\* fetched only after a result with numbers
C18_PollingProtocol ==
    /\ vat.polls > 0 => vat.submitted
    /\ pc = "vat_poll" =>
          /\ VatJob
          /\ vat.result = IF vat.polls = 0 THEN "none" ELSE "processing"
          /\ objects = fetched
    /\ (VatJob /\ pc # "vat_poll") =>
          /\ pc = "slow_update"
          /\ vat.polls >= 1
          /\ vat.result \in {"error", "empty", "batch_errors", "numbers"}
          /\ vat.result # "numbers" => objects = fetched

\* after a poll that answered "still processing", the next poll reported
\* another error and the batch came back as fetched
C18_Witness ==
    /\ VatJob
    /\ pc = "slow_update"
    /\ vat.polls = 2
    /\ vat.result = "error"
    /\ objects = fetched
    /\ Len(objects) > 0

\* ------------------------------------------------------------------------
\* C19: the results of the job and the records of the batch
\* ------------------------------------------------------------------------

\* the job succeeded with as many entries as identifiers were submitted
JobComplete ==
    /\ VatJob
    /\ pc = "slow_update"
    /\ vat.result = "numbers"
    /\ vat.entries = Len(objects)

\* C19: after a job that returned a result for every submitted identifier,
\* every record of the batch has left formal ok: it is ok or check and its
\* last_visited is set, whatever the case or the surrounding whitespace of
\* its value
C19_MatchingComplete ==
    JobComplete =>
        \A k \in DOMAIN objects :
            /\ objects[k].status \in {"ok", "check"}
            /\ objects[k].last_visited = <<Now>>

\* ------------------------------------------------------------------------
\* C20: update_objects writes the records that have last_visited
\* ------------------------------------------------------------------------

\* the step is an update_objects that raised nothing
Persisted == pc \in {"fast_update", "slow_update"} /\ Len(objects) > 0 /\ exc' = "none"

\* C20: an update_objects that succeeds gives a row the fields of the record
\* of the batch with its classification and value if that record has
\* last_visited set, and leaves every other row as it was; a batch returned as
\* fetched changes no row
C20_PersistOnlyEvaluated ==
    [][Persisted =>
          /\ \A key \in DOMAIN store :
                LET set == {k \in DOMAIN objects : /\ KeyOf(objects[k]) = key
                                                   /\ objects[k].last_visited # NoVisit}
                IN  IF set = {} THEN store'[key] = store[key]
                    ELSE \E k \in set : store'[key] = RowOf(objects[k])
          /\ objects = fetched => store' = store]_vars

\* a slow batch of two has been persisted: the record with last_visited is
\* in its row, the row of the record without is formal ok as before
C20_Witness ==
    /\ pc = "slow_end"
    /\ exc = "none"
    /\ \E j, k \in DOMAIN objects :
          /\ objects[j].last_visited = <<Now>>
          /\ store[KeyOf(objects[j])] = RowOf(objects[j])
          /\ objects[k].last_visited = NoVisit
          /\ store[KeyOf(objects[k])].status = "formal ok"
          /\ store[KeyOf(objects[k])].last_visited # NoVisit

\* ------------------------------------------------------------------------
\* C21: the finished flags of a round
\* ------------------------------------------------------------------------

\* the step stays within the sweep, and the classification has a flag after it
SameSweep(c) == sweep' = sweep /\ c \in DOMAIN final'

\* C21, as claimed: once a classification's fetch was empty, its flag stays
\* true and no further fetch is issued for it as long as the sweep lasts
C21_FinishedForSweep ==
    [][\A c \in DOMAIN final :
          (final[c] /\ SameSweep(c)) =>
              /\ final'[c]
              /\ turns'[c].fetches = turns[c].fetches]_vars

\* C21: a flag is true exactly when the classification's fetch of the running
\* round was empty; a fetch is issued only for a classification whose flag is
\* false and that was not fetched in the round; at the end of a round every
\* classification has been fetched once in it, whatever the rounds before
\* found; and the sweeps end only on a round in which every fetch was empty
C21_FinishedPerRound ==
    /\ \A c \in DOMAIN final :
          final[c] <=> (turns[c].fetches = 1 /\ turns[c].got = 0)
    /\ pc \in {"fast_fetch", "slow_fetch"} =>
          /\ ~final[Current]
          /\ turns[Current].fetches = 0
    /\ RoundDone => \A c \in DOMAIN final : turns[c].fetches = 1
    /\ pc = "else" => \A c \in DOMAIN final : turns[c].fetches = 1 /\ turns[c].got = 0

\* in a later round of the fast sweep, a classification that had nothing
\* eligible when the run began has been fetched again and is flagged again,
\* while another classification of the round had a batch
C21_Witness ==
    /\ sweep = "fast"
    /\ rounds >= 2
    /\ \E c, d \in DOMAIN final :
          /\ Backlog(store0, c, config.history, "fast") = 0
          /\ final[c]
          /\ turns[c].fetches = 1
          /\ turns[d].got > 0

\* ------------------------------------------------------------------------
\* C22: classifications without a validator and the end of a sweep
\* ------------------------------------------------------------------------

\* every classification that has a validator had an empty fetch in the round
RegisteredDrained == \A c \in DOMAIN final : c \in CLASS_MAPPING => final[c]

\* C22: a classification without a registered validator counts as finished
\* even while it has eligible records: at the end of a round in which every
\* registered classification was drained, every flag is true and the sweep
\* ends
C22_UnregisteredConverges ==
    (RoundDone /\ RegisteredDrained) => \A c \in DOMAIN final : final[c]

\* ------------------------------------------------------------------------
\* The fast sweep of a run over VAT_ID records
\* ------------------------------------------------------------------------

\* values of VAT_ID rows: Belgian and German identifiers, as keyed in
VatSamples ==
    { <<"B", "E", "0", "4", "2", "8", "7", "5", "9", "4", "9", "7">>,
      <<"B", "E", "0", "0", "0", "0", "0", "0", "0", "0", "8", "9">>,
      <<"B", "E", "0", "4", "2", "8", "7", "5", "9", "4", "9", "8">>,
      <<"D", "E", "1", "3", "6", "6", "9", "5", "9", "7", "6">>,
      <<"D", "E", "1", "3", "6", "6", "9", "5", "9", "7", "5">>,
      <<" ", "D", "E", "1", "3", "6", "6", "9", "5", "9", "7", "5">>,
      <<"D", "E", "1", "3", "6", "6", "9", "5", "9", "7", "6", " ">>,
      <<"d", "e", "1", "3", "6", "6", "9", "5", "9", "7", "5">> }

\* the stores of one VAT_ID row that was never visited
VatFastStores ==
    {[key \in {<<"VAT_ID", v>>} |-> RowOf(BlankObject(key))] : v \in VatSamples}

\* a run that begins on such a store
VatFastInit ==
    /\ store \in VatFastStores
    /\ config \in [batchsize_fast : BatchSizes, batchsize_slow : BatchSizes,
                   history : Histories]
    /\ connection = "unbound"
    /\ classifications = <<>>
    /\ pc = "connect"
    /\ sweep = "none"
    /\ idx = 1
    /\ final = <<>>
    /\ objects = <<>>
    /\ tasks = {}
    /\ vat = NoVat
    /\ exc = "none"
    /\ outcome = "running"
    /\ store0 = store
    /\ fetched = <<>>
    /\ rounds = 0
    /\ turns = NoTurns
    /\ fastComplete = FALSE
    /\ called = {}
    /\ quotaSkipped = {}
    /\ probe = <<>>

\* main() up to the end of the fast sweep
VatFastNext ==
    \/ Connect
    \/ GetClassifications
    \/ FastFetch
    \/ FastValidate
    \/ FastUpdate
    \/ FastRoundEnd

VatFastSpec == VatFastInit /\ [][VatFastNext]_vars

\* validate_VAT_ID.validate_fast has returned the batch in hand
VatFastReturned == pc = "fast_update" /\ Current = "VAT_ID"

\* ------------------------------------------------------------------------
\* C23: the Belgian checksum
\* ------------------------------------------------------------------------

\* the check as stated: ten digits, the first of them 0, and 97 minus the
\* first eight digits modulo 97 equal to the last two digits
BelgianAsClaimed(number) ==
    IF Len(number) # 10 \/ ~IsDigitStr(number) \/ number[1] # "0" THEN FALSE
    ELSE 97 - (StrToInt(SubSeq(number, 1, 8)) % 97) = StrToInt(SubSeq(number, 9, 10))

\* C23: for the number of every Belgian identifier the fast phase was given,
\* _is_valid_belgian_vat_checksum answers as the stated check does, and the
\* record is formal ok exactly when the stated check accepts the number
C23_BelgianChecksum ==
    VatFastReturned =>
        \A k \in DOMAIN objects :
            LET vat_id == objects[k].value
                number == SliceFrom(vat_id, 2)
            IN  (Slice(vat_id, 0, 2) = <<"B", "E">> /\ is_valid_vat_syntax(vat_id)) =>
                    /\ _is_valid_belgian_vat_checksum(number) = BelgianAsClaimed(number)
                    /\ (objects[k].status = "formal ok") = BelgianAsClaimed(number)

\* ------------------------------------------------------------------------
\* C24: the value the fast phase of validate_VAT_ID checks
\* ------------------------------------------------------------------------

\* the record validate_fast returns for the trimmed, upper-cased value
NormalizedVerdict(value) ==
    VAT_validate_fast(<<BlankObject(<<"VAT_ID", Upper(Strip(value))>>)>>)[1]

\* C24: every record the fast phase returns has the status and the message
\* of its trimmed, upper-cased value, and a record whose value normalizes to
\* the German identifier with the wrong check digit is check with the
\* message "Invalid VAT ID checksum"
C24_NormalizedThroughout ==
    VatFastReturned =>
        \A k \in DOMAIN objects :
            LET ref == NormalizedVerdict(objects[k].value)
            IN  /\ objects[k].status = ref.status
                /\ objects[k].status_message = ref.status_message
                /\ Upper(Strip(objects[k].value)) =
                       <<"D", "E", "1", "3", "6", "6", "9", "5", "9", "7", "5">> =>
                       /\ objects[k].status = "check"
                       /\ objects[k].status_message = "Invalid VAT ID checksum"

\* ------------------------------------------------------------------------
\* C25: one fast validation of a record in a run
\* ------------------------------------------------------------------------

\* the row was refreshed in this run: the rows a run begins on were never
\* visited or were visited on an earlier day
RefreshedThisRun(key) == store[key].last_visited = <<Now>>

\* C25: a record that was fast-validated and persisted with a refreshed
\* last_visited is not fetched for the fast phase again, whatever the
\* staleness window: no batch handed to validate_fast holds a record whose
\* row this run has refreshed
C25_OneFastValidation ==
    pc = "fast_validate" =>
        \A k \in DOMAIN fetched : ~RefreshedThisRun(KeyOf(fetched[k]))

====
